---- MODULE Spec2Model ----
(***************************************************************************)
(* Model of src/app.py: the citation-to-highlight pipeline of the          *)
(* /view-pdf handler and the pure functions it is built from               *)
(* (extract_document_name, extract_lines, extract_line_bboxes,             *)
(* highlight_annotation).                                                  *)
(*                                                                         *)
(* A text is a sequence of lexical units (strings).  "Lines " is the       *)
(* literal keyword of both regular expressions, ", " the separator of the  *)
(* document pattern (the only unit holding a comma), ".pdf" the extension, *)
(* "0".."9" the digits; every other unit is an ordinary run of characters. *)
(***************************************************************************)
EXTENDS Integers, Sequences, FiniteSets

VARIABLES pc, chatbot_response, document_name, PDF_URL, status_code,
          pdf_content, page_line_pairs, pages, page_num, lines_to_highlight,
          page_layout, line_number, line_bboxes, highlight, writer, response

vars == <<pc, chatbot_response, document_name, PDF_URL, status_code,
          pdf_content, page_line_pairs, pages, page_num, lines_to_highlight,
          page_layout, line_number, line_bboxes, highlight, writer, response>>

\* ------------------------------------------------------------------ bounds

\* Largest line number written in a citation of the /view-pdf requests.
MaxLine == 2
\* Largest number of text lines on page 1 of a stored document.
MaxK == 2
\* Largest number of pieces of a text handed to extract_lines on its own.
MaxPieces == 4
\* Largest number of elements of a page layout handed to extract_line_bboxes.
MaxElems == 2
\* Largest number of children of one layout element.
MaxChildren == 2
\* Largest number of boxes handed to highlight_annotation on its own.
MaxBoxes == 2
\* Largest coordinate of a bounding box.
MaxCoord == 1

\* ------------------------------------------------------- sequence helpers

RECURSIVE Flatten(_)
\* Concatenation of a sequence of sequences.
Flatten(ss) == IF ss = <<>> THEN <<>> ELSE Head(ss) \o Flatten(Tail(ss))

\* All sequences over S of length at most n.
SeqsUpTo(S, n) == UNION {[1..k -> S] : k \in 0..n}

\* ------------------------------------------------------------ regex units

Digits == {"0", "1", "2", "3", "4", "5", "6", "7", "8", "9"}

DigitValue(t) ==
    CASE t = "0" -> 0 [] t = "1" -> 1 [] t = "2" -> 2 [] t = "3" -> 3
      [] t = "4" -> 4 [] t = "5" -> 5 [] t = "6" -> 6 [] t = "7" -> 7
      [] t = "8" -> 8 [] t = "9" -> 9

RECURSIVE DigitRunEnd(_, _)
\* \d+ is greedy: the index just past the longest run of digits from i on
\* (i itself when text[i] is no digit).
DigitRunEnd(text, i) ==
    IF i <= Len(text) /\ text[i] \in Digits
    THEN DigitRunEnd(text, i + 1)
    ELSE i

RECURSIVE int(_)
\* int() of a string of decimal digits, most significant first.
int(ds) ==
    IF ds = <<>> THEN 0
    ELSE int(SubSeq(ds, 1, Len(ds) - 1)) * 10 + DigitValue(ds[Len(ds)])

\* The pattern  Lines (\d+)-(\d+)  tried at position i: whether it matches,
\* its two groups and the index just past the match.
MatchLinesAt(text, i) ==
    LET j == DigitRunEnd(text, i + 1)
        k == DigitRunEnd(text, j + 1)
        ok == /\ i <= Len(text) /\ text[i] = "Lines "
              /\ j > i + 1
              /\ j <= Len(text) /\ text[j] = "-"
              /\ k > j + 1
    IN  IF ok
        THEN [ok |-> TRUE, g1 |-> SubSeq(text, i + 1, j - 1),
              g2 |-> SubSeq(text, j + 1, k - 1), next |-> k]
        ELSE [ok |-> FALSE, g1 |-> <<>>, g2 |-> <<>>, next |-> i + 1]

RECURSIVE FindAllFrom(_, _)
\* re.findall: leftmost non-overlapping matches, scanning on after each one.
FindAllFrom(text, i) ==
    IF i > Len(text) THEN <<>>
    ELSE LET m == MatchLinesAt(text, i)
         IN  IF m.ok THEN <<<<m.g1, m.g2>>>> \o FindAllFrom(text, m.next)
             ELSE FindAllFrom(text, i + 1)

re_findall(text) == FindAllFrom(text, 1)

\* The constant page number of every reference.
PAGE == 1

\* range(a, stop): a, a+1, ..., stop-1 (empty when a >= stop).
range(a, stop) ==
    IF a >= stop THEN <<>> ELSE [n \in 1..(stop - a) |-> a + n - 1]

\* The references of a match with the end line left out.
ExpandMatchExclusive(match) ==
    LET r == range(int(match[1]), int(match[2]))
    IN  [n \in 1..Len(r) |-> <<PAGE, r[n]>>]

\* for line in range(start_line, end_line + 1): result.append((1, line))
ExpandMatch(match) ==
    LET start_line == int(match[1])
        end_line == int(match[2])
        r == range(start_line, end_line + 1)
    IN  [n \in 1..Len(r) |-> <<PAGE, r[n]>>]

extract_lines(text) ==
    LET matches == re_findall(text)
    IN  Flatten([m \in 1..Len(matches) |-> ExpandMatch(matches[m])])

\* ------------------------------------------------- extract_document_name

\* No document name (Python's None); a matched name is never empty.
None == <<>>

RECURSIVE FirstComma(_, _)
\* [^,]+ stops at the first unit holding a comma: its index, or Len+1.
FirstComma(text, i) ==
    IF i > Len(text) \/ text[i] = ", " THEN i ELSE FirstComma(text, i + 1)

\* The pattern  \(([^,]+\.pdf), Lines \d+-\d+\)  tried at position i.
MatchDocAt(text, i) ==
    LET c == FirstComma(text, i + 1)
        j == DigitRunEnd(text, c + 2)
        k == DigitRunEnd(text, j + 1)
        ok == /\ i <= Len(text) /\ text[i] = "("
              /\ c <= Len(text)
              /\ c - 1 >= i + 2 /\ text[c - 1] = ".pdf"
              /\ c + 1 <= Len(text) /\ text[c + 1] = "Lines "
              /\ j > c + 2
              /\ j <= Len(text) /\ text[j] = "-"
              /\ k > j + 1
              /\ k <= Len(text) /\ text[k] = ")"
    IN  IF ok THEN [ok |-> TRUE, g1 |-> SubSeq(text, i + 1, c - 1)]
        ELSE [ok |-> FALSE, g1 |-> <<>>]

RECURSIVE SearchDocFrom(_, _)
\* re.search: the leftmost match.
SearchDocFrom(text, i) ==
    IF i > Len(text) THEN [ok |-> FALSE, g1 |-> <<>>]
    ELSE LET m == MatchDocAt(text, i)
         IN  IF m.ok THEN m ELSE SearchDocFrom(text, i + 1)

extract_document_name(text) ==
    LET match == SearchDocFrom(text, 1)
    IN  IF match.ok THEN match.g1 ELSE None

\* ---------------------------------------------------- extract_line_bboxes

\* A page layout is a sequence of elements [container, children]; a child is
\* [line, bbox].  container: isinstance(element, LTTextContainer);
\* line: isinstance(text_line, LTTextLine).

IsTextContainer(element) == element.container

\* Every child counted as a line, whatever its type.
AnyChildIsLine(text_line) == TRUE

IsTextLine(text_line) == text_line.line

\* The loop state on entering a container's inner loop, with the counter
\* started again for the container.
EnterContainerReset(st) == [st EXCEPT !.current_line_number = 0]

\* The loop state on entering a container's inner loop: the counter set once
\* before the outer loop carries over from the containers before.
EnterContainer(st) == st

\* The loop state with the counter started at 1.
StartScanFromOne == [current_line_number |-> 1, line_bboxes |-> <<>>]

\* line_bboxes = []; current_line_number = 0
StartScan == [current_line_number |-> 0, line_bboxes |-> <<>>]

RECURSIVE ScanLines(_, _, _, _)
\* The inner loop over a container's children from index j on; the break
\* leaves it at the first line whose number is the target.
ScanLines(element, j, st, target_line_number) ==
    IF j > Len(element) THEN st
    ELSE IF IsTextLine(element[j])
         THEN LET n == st.current_line_number + 1
              IN  IF n = target_line_number
                  THEN [current_line_number |-> n,
                        line_bboxes |-> Append(st.line_bboxes, element[j].bbox)]
                  ELSE ScanLines(element, j + 1,
                                 [st EXCEPT !.current_line_number = n],
                                 target_line_number)
         ELSE ScanLines(element, j + 1, st, target_line_number)

RECURSIVE ScanElements(_, _, _, _)
\* The outer loop over the layout's elements from index e on; it goes on
\* after the inner loop's break.
ScanElements(layout, e, st, target_line_number) ==
    IF e > Len(layout) THEN st
    ELSE IF IsTextContainer(layout[e])
         THEN ScanElements(layout, e + 1,
                           ScanLines(layout[e].children, 1, EnterContainer(st),
                                     target_line_number),
                           target_line_number)
         ELSE ScanElements(layout, e + 1, st, target_line_number)

extract_line_bboxes(layout, target_line_number) ==
    ScanElements(layout, 1, StartScan, target_line_number).line_bboxes

\* ---------------------------------------------------- highlight_annotation

\* zip(*bounds)[c]: the c-th coordinate of every box, in order.
Column(bounds, c) == [n \in 1..Len(bounds) |-> bounds[n][c]]

RECURSIVE min(_)
min(xs) ==
    IF Len(xs) = 1 THEN xs[1]
    ELSE LET m == min(Tail(xs)) IN IF m < xs[1] THEN m ELSE xs[1]

RECURSIVE max(_)
max(xs) ==
    IF Len(xs) = 1 THEN xs[1]
    ELSE LET m == max(Tail(xs)) IN IF m > xs[1] THEN m ELSE xs[1]

\* The first box taken as the rectangle.
RectOfFirstBox(bounds) == bounds[1]

\* rect_bbox = [min(x0), min(y0), max(x1), max(y1)]
RectOf(bounds) ==
    <<min(Column(bounds, 1)), min(Column(bounds, 2)),
      max(Column(bounds, 3)), max(Column(bounds, 4))>>

\* The corners in the box's own order, bottom edge first.
QuadOfUnflipped(bbox) ==
    <<bbox[1], bbox[2], bbox[3], bbox[2], bbox[1], bbox[4], bbox[3], bbox[4]>>

\* x1, y1, x2, y2 = bbox; [x1, y2, x2, y2, x1, y1, x2, y1]
QuadOf(bbox) ==
    <<bbox[1], bbox[4], bbox[3], bbox[4], bbox[1], bbox[2], bbox[3], bbox[2]>>

RECURSIVE QuadPointsOf(_)
\* for bbox in bounds: quad_points.extend(...)
QuadPointsOf(bounds) ==
    IF bounds = <<>> THEN <<>>
    ELSE QuadOf(Head(bounds)) \o QuadPointsOf(Tail(bounds))

\* The default color argument, yellow.
YELLOW == <<1, 1, 0>>

highlight_annotation(bounds) ==
    [F |-> 4, Type |-> "/Annot", Subtype |-> "/Highlight", C |-> YELLOW,
     Rect |-> RectOf(bounds), QuadPoints |-> QuadPointsOf(bounds)]

\* The value of highlight before any annotation is built.
NoHighlight ==
    [F |-> 0, Type |-> "", Subtype |-> "", C |-> <<>>,
     Rect |-> <<>>, QuadPoints |-> <<>>]

\* ------------------------------------------------------------ input sets

\* Boxes with x0 <= x1 and y0 <= y1.
Boxes ==
    {b \in (0..MaxCoord) \X (0..MaxCoord) \X (0..MaxCoord) \X (0..MaxCoord) :
        b[1] <= b[3] /\ b[2] <= b[4]}

\* The box of the child at place c of element e of a layout: one box per place.
BoxAt(e, c) == <<10 * c, 10 * e, 10 * c + 8, 10 * e + 9>>

\* What an element can be: no container (a figure, a rule), or a container
\* whose children are lines (TRUE) or something else (FALSE).
ElementShapes ==
    {[container |-> FALSE, children |-> <<>>]}
    \cup {[container |-> TRUE, children |-> cs] :
            cs \in SeqsUpTo(BOOLEAN, MaxChildren)}

LayoutOfShape(shape) ==
    [e \in 1..Len(shape) |->
        [container |-> shape[e].container,
         children |-> [c \in 1..Len(shape[e].children) |->
                          [line |-> shape[e].children[c], bbox |-> BoxAt(e, c)]]]]

Layouts == {LayoutOfShape(s) : s \in SeqsUpTo(ElementShapes, MaxElems)}

\* Texts handed to extract_lines on its own: up to MaxPieces pieces, each a
\* single unit (the keyword, a digit, the dash, another character) or a
\* whole range (start < end, start = end, start > end).
LinesPieces ==
    {<<"Lines ">>, <<"0">>, <<"1">>, <<"-">>, <<"x">>,
     <<"Lines ", "1", "-", "2">>, <<"Lines ", "2", "-", "2">>,
     <<"Lines ", "2", "-", "1">>}

LinesTexts == {Flatten(ps) : ps \in SeqsUpTo(LinesPieces, MaxPieces)}

\* The digit that writes n (0 <= n <= 9).
DigitOf(n) == CHOOSE t \in Digits : DigitValue(t) = n

DocCite(name, a, b) ==
    <<"(">> \o name \o <<".pdf", ", ", "Lines ", DigitOf(a), "-", DigitOf(b), ")">>

Bare(a, b) == <<"Lines ", DigitOf(a), "-", DigitOf(b)>>

\* The pieces of a /view-pdf request's text: a parenthesised citation, a bare
\* range, a citation of another document, a citation in lower case (matched
\* by neither pattern), plain words, an opening parenthesis.
Pieces ==
    {DocCite(<<"doc">>, a, b) : a, b \in 0..MaxLine}
    \cup {Bare(a, b) : a, b \in 0..MaxLine}
    \cup {DocCite(<<"hr">>, 1, 1),
          <<"(", "doc", ".pdf", ", ", "lines ", "1", "-", "1", ")">>,
          <<"see ">>, <<"(">>}

\* The texts of the requests: the empty text, one piece, or two.
Responses == {a \o b : a, b \in Pieces \cup {<<>>}}

\* An annotation a stored page may already carry.
ExistingAnnot ==
    [F |-> 4, Type |-> "/Annot", Subtype |-> "/Link", C |-> <<>>,
     Rect |-> <<0, 0, 1, 1>>, QuadPoints |-> <<>>]

\* A page with K text lines: a figure, a container with the first line and
\* a child that is no line, a container with the other lines.
StoredLayout(K) ==
    LayoutOfShape(<<[container |-> FALSE, children |-> <<>>],
                    [container |-> TRUE,
                     children |-> (IF K >= 1 THEN <<TRUE>> ELSE <<>>) \o <<FALSE>>],
                    [container |-> TRUE,
                     children |-> IF K >= 2 THEN [n \in 1..(K - 1) |-> TRUE] ELSE <<>>]>>)

\* A page is [layout, has_annots, annots]: has_annots is "/Annots" in page.
FirstPages ==
    {[layout |-> StoredLayout(K), has_annots |-> a[1], annots |-> a[2]] :
        K \in 0..MaxK,
        a \in {<<FALSE, <<>>>>, <<TRUE, <<>>>>, <<TRUE, <<ExistingAnnot>>>>}}

SecondPage ==
    [layout |-> StoredLayout(1), has_annots |-> TRUE, annots |-> <<ExistingAnnot>>]

\* What the blob store can answer with: bytes that are no PDF, a PDF with no
\* page, with one page, with two.
StoredDocuments ==
    {[valid |-> FALSE, pages |-> <<>>], [valid |-> TRUE, pages |-> <<>>]}
    \cup {[valid |-> TRUE, pages |-> <<p>>] : p \in FirstPages}
    \cup {[valid |-> TRUE, pages |-> <<p, SecondPage>>] : p \in FirstPages}

NoContent == [valid |-> FALSE, pages |-> <<>>]

NoResponse == [status |-> 0, body |-> "", pages |-> <<>>]

\* ------------------------------------------------------------- /view-pdf

Init ==
    /\ pc = "idle"
    /\ chatbot_response = <<>>
    /\ document_name = None
    /\ PDF_URL = <<>>
    /\ status_code = 0
    /\ pdf_content = NoContent
    /\ page_line_pairs = <<>>
    /\ pages = <<>>
    /\ page_num = 0
    /\ lines_to_highlight = <<>>
    /\ page_layout = <<>>
    /\ line_number = 0
    /\ line_bboxes = <<>>
    /\ highlight = NoHighlight
    /\ writer = <<>>
    /\ response = NoResponse

\* chatbot_response = request.args.get('response', '')
Request ==
    /\ pc = "idle"
    /\ \E text \in Responses : chatbot_response' = text
    /\ pc' = "extract_document_name"
    /\ UNCHANGED <<document_name, PDF_URL, status_code, pdf_content,
                   page_line_pairs, pages, page_num, lines_to_highlight,
                   page_layout, line_number, line_bboxes, highlight, writer,
                   response>>

ExtractDocumentName ==
    /\ pc = "extract_document_name"
    /\ document_name' = extract_document_name(chatbot_response)
    /\ pc' = "fetch"
    /\ UNCHANGED <<chatbot_response, PDF_URL, status_code, pdf_content,
                   page_line_pairs, pages, page_num, lines_to_highlight,
                   page_layout, line_number, line_bboxes, highlight, writer,
                   response>>

\* f"https://.../hrhbtb-pdf-chunks/{document_name}": None is written "None".
UrlOf(name) ==
    <<"https://ioclhrchatgpt.blob.core.windows.net/hrhbtb-pdf-chunks/">>
    \o (IF name = None THEN <<"None">> ELSE name)

HTTP_OK == 200

\* requests.get(PDF_URL): the store answers 200 with some document, or not
\* 200; a status other than 200 ends the request.
Fetch ==
    /\ pc = "fetch"
    /\ PDF_URL' = UrlOf(document_name)
    /\ \E status \in {HTTP_OK, 404}, content \in StoredDocuments :
        /\ status_code' = status
        /\ IF status # HTTP_OK
           THEN /\ response' = [status |-> 500, body |-> "Unable to fetch the PDF.",
                                pages |-> <<>>]
                /\ pdf_content' = pdf_content
                /\ pc' = "done"
           ELSE /\ pdf_content' = content
                /\ response' = response
                /\ pc' = "check_response"
    /\ UNCHANGED <<chatbot_response, document_name, page_line_pairs, pages,
                   page_num, lines_to_highlight, page_layout, line_number,
                   line_bboxes, highlight, writer>>

\* if not chatbot_response: return "No chatbot response provided."
CheckResponse ==
    /\ pc = "check_response"
    /\ IF chatbot_response = <<>>
       THEN /\ response' = [status |-> 200, body |-> "No chatbot response provided.",
                            pages |-> <<>>]
            /\ pc' = "done"
       ELSE /\ response' = response
            /\ pc' = "extract_lines"
    /\ UNCHANGED <<chatbot_response, document_name, PDF_URL, status_code,
                   pdf_content, page_line_pairs, pages, page_num,
                   lines_to_highlight, page_layout, line_number, line_bboxes,
                   highlight, writer>>

ExtractLines ==
    /\ pc = "extract_lines"
    /\ page_line_pairs' = extract_lines(chatbot_response)
    /\ IF page_line_pairs' = <<>>
       THEN /\ response' = [status |-> 400, body |-> "No lines to highlight.",
                            pages |-> <<>>]
            /\ pc' = "done"
       ELSE /\ response' = response
            /\ pc' = "open"
    /\ UNCHANGED <<chatbot_response, document_name, PDF_URL, status_code,
                   pdf_content, pages, page_num, lines_to_highlight,
                   page_layout, line_number, line_bboxes, highlight, writer>>

\* reader = PdfReader(pdf_content); writer = PdfWriter().  Bytes that are no
\* PDF raise, and the handler's except clause answers 500.
OpenPdf ==
    /\ pc = "open"
    /\ IF pdf_content.valid
       THEN /\ pages' = pdf_content.pages
            /\ response' = response
            /\ pc' = "next_page"
       ELSE /\ pages' = pages
            /\ response' = [status |-> 500, body |-> "An error occurred",
                            pages |-> <<>>]
            /\ pc' = "done"
    /\ UNCHANGED <<chatbot_response, document_name, PDF_URL, status_code,
                   pdf_content, page_line_pairs, page_num, lines_to_highlight,
                   page_layout, line_number, line_bboxes, highlight, writer>>

\* The lines of a page, one entry per reference and in their order, each
\* line kept once.
LinesForPageOnce(pairs, n) ==
    LET sel == SelectSeq(pairs, LAMBDA pl : pl[1] = n)
        first == {m \in 1..Len(sel) : \A q \in 1..(m - 1) : sel[q] # sel[m]}
        RECURSIVE Once(_, _)
        Once(m, acc) ==
            IF m > Len(sel) THEN acc
            ELSE Once(m + 1, IF m \in first THEN Append(acc, sel[m][2]) ELSE acc)
    IN  Once(1, <<>>)

\* [line_num for (p, line_num) in page_line_pairs if p == page_num]
LinesForPage(pairs, n) ==
    LET sel == SelectSeq(pairs, LAMBDA pl : pl[1] = n)
    IN  [m \in 1..Len(sel) |-> sel[m][2]]

\* for page_num, page in enumerate(reader.pages, start=1): the next page's
\* layout and lines, or the end of the loop.
NextPage ==
    /\ pc = "next_page"
    /\ IF page_num < Len(pages)
       THEN /\ page_num' = page_num + 1
            /\ page_layout' = pages[page_num + 1].layout
            /\ lines_to_highlight' = LinesForPage(page_line_pairs, page_num + 1)
            /\ pc' = "lines"
       ELSE /\ UNCHANGED <<page_num, page_layout, lines_to_highlight>>
            /\ pc' = "serialize"
    /\ UNCHANGED <<chatbot_response, document_name, PDF_URL, status_code,
                   pdf_content, page_line_pairs, pages, line_number,
                   line_bboxes, highlight, writer, response>>

\* The page with the annotation as its only one.
InjectAlone(page, annot) ==
    [page EXCEPT !.has_annots = TRUE, !.annots = <<annot>>]

\* if "/Annots" in page: page["/Annots"].append(highlight)
\* else: page[NameObject("/Annots")] = ArrayObject([highlight])
Inject(page, annot) ==
    IF page.has_annots
    THEN [page EXCEPT !.annots = Append(page.annots, annot)]
    ELSE [page EXCEPT !.has_annots = TRUE, !.annots = <<annot>>]

\* One turn of  for line_number in lines_to_highlight: locate the line and,
\* if it has a box, build the highlight and attach it to the page.
HighlightLine ==
    /\ pc = "lines"
    /\ lines_to_highlight # <<>>
    /\ line_number' = Head(lines_to_highlight)
    /\ lines_to_highlight' = Tail(lines_to_highlight)
    /\ line_bboxes' = extract_line_bboxes(page_layout, line_number')
    /\ IF line_bboxes' # <<>>
       THEN /\ highlight' = highlight_annotation(line_bboxes')
            /\ pages' = [pages EXCEPT ![page_num] = Inject(pages[page_num], highlight')]
       ELSE UNCHANGED <<highlight, pages>>
    /\ UNCHANGED <<pc, chatbot_response, document_name, PDF_URL, status_code,
                   pdf_content, page_line_pairs, page_num, page_layout, writer,
                   response>>

\* writer.add_page(page), after the page's lines.
AddPage ==
    /\ pc = "lines"
    /\ lines_to_highlight = <<>>
    /\ writer' = Append(writer, pages[page_num])
    /\ pc' = "next_page"
    /\ UNCHANGED <<chatbot_response, document_name, PDF_URL, status_code,
                   pdf_content, page_line_pairs, pages, page_num,
                   lines_to_highlight, page_layout, line_number, line_bboxes,
                   highlight, response>>

\* writer.write(output_stream); return send_file(...)
Serialize ==
    /\ pc = "serialize"
    /\ response' = [status |-> 200, body |-> "application/pdf", pages |-> writer]
    /\ pc' = "done"
    /\ UNCHANGED <<chatbot_response, document_name, PDF_URL, status_code,
                   pdf_content, page_line_pairs, pages, page_num,
                   lines_to_highlight, page_layout, line_number, line_bboxes,
                   highlight, writer>>

Next ==
    \/ Request
    \/ ExtractDocumentName
    \/ Fetch
    \/ CheckResponse
    \/ ExtractLines
    \/ OpenPdf
    \/ NextPage
    \/ HighlightLine
    \/ AddPage
    \/ Serialize

Spec == Init /\ [][Next]_vars

\* ------------------------------------------- the pure functions on their own

\* The request-level state, which a call of one function alone leaves as it is.
NoRequest ==
    /\ document_name = None
    /\ PDF_URL = <<>>
    /\ status_code = 0
    /\ pdf_content = NoContent
    /\ pages = <<>>
    /\ page_num = 0
    /\ lines_to_highlight = <<>>
    /\ writer = <<>>
    /\ response = NoResponse

\* extract_lines(text) for every text of LinesTexts.
InitLines ==
    /\ pc = "call"
    /\ chatbot_response \in LinesTexts
    /\ page_line_pairs = <<>>
    /\ page_layout = <<>>
    /\ line_number = 0
    /\ line_bboxes = <<>>
    /\ highlight = NoHighlight
    /\ NoRequest

CallExtractLines ==
    /\ pc = "call"
    /\ page_line_pairs' = extract_lines(chatbot_response)
    /\ pc' = "return"
    /\ UNCHANGED <<chatbot_response, document_name, PDF_URL, status_code,
                   pdf_content, pages, page_num, lines_to_highlight,
                   page_layout, line_number, line_bboxes, highlight, writer,
                   response>>

SpecLines == InitLines /\ [][CallExtractLines]_vars

\* extract_line_bboxes(page_layout, line_number) for every layout of Layouts
\* and every target from 0 to one past the most lines a layout can hold.
InitLocate ==
    /\ pc = "call"
    /\ chatbot_response = <<>>
    /\ page_line_pairs = <<>>
    /\ page_layout \in Layouts
    /\ line_number \in 0..(MaxElems * MaxChildren + 1)
    /\ line_bboxes = <<>>
    /\ highlight = NoHighlight
    /\ NoRequest

CallExtractLineBboxes ==
    /\ pc = "call"
    /\ line_bboxes' = extract_line_bboxes(page_layout, line_number)
    /\ pc' = "return"
    /\ UNCHANGED <<chatbot_response, document_name, PDF_URL, status_code,
                   pdf_content, page_line_pairs, pages, page_num,
                   lines_to_highlight, page_layout, line_number, highlight,
                   writer, response>>

SpecLocate == InitLocate /\ [][CallExtractLineBboxes]_vars

\* highlight_annotation(line_bboxes) for every non-empty sequence of up to
\* MaxBoxes boxes.
InitBuild ==
    /\ pc = "call"
    /\ chatbot_response = <<>>
    /\ page_line_pairs = <<>>
    /\ page_layout = <<>>
    /\ line_number = 0
    /\ line_bboxes \in SeqsUpTo(Boxes, MaxBoxes) \ {<<>>}
    /\ highlight = NoHighlight
    /\ NoRequest

CallHighlightAnnotation ==
    /\ pc = "call"
    /\ highlight' = highlight_annotation(line_bboxes)
    /\ pc' = "return"
    /\ UNCHANGED <<chatbot_response, document_name, PDF_URL, status_code,
                   pdf_content, page_line_pairs, pages, page_num,
                   lines_to_highlight, page_layout, line_number, line_bboxes,
                   writer, response>>

SpecBuild == InitBuild /\ [][CallHighlightAnnotation]_vars

\* ------------------------------------------- what the properties speak of

\* text[a..b] is a non-empty run of digits.
IsDigitRun(text, a, b) == a <= b /\ \A n \in a..b : text[n] \in Digits

RECURSIVE Pow10(_)
Pow10(n) == IF n = 0 THEN 1 ELSE 10 * Pow10(n - 1)

RECURSIVE DecimalSum(_, _, _)
\* The number written by the digits text[a..b]: the sum of digit * 10^place.
DecimalSum(text, a, b) ==
    IF a > b THEN 0
    ELSE DigitValue(text[a]) * Pow10(b - a) + DecimalSum(text, a + 1, b)

\* An occurrence of  Lines A-B : the keyword at i, A written in i+1..j-1, the
\* dash at j, B written in j+1..k, and no digit after k.
OccurrenceAt(text, i, j, k) ==
    /\ text[i] = "Lines "
    /\ IsDigitRun(text, i + 1, j - 1)
    /\ text[j] = "-"
    /\ IsDigitRun(text, j + 1, k)
    /\ (k = Len(text) \/ text[k + 1] \notin Digits)

\* The units of the text that are tok.
Places(text, tok) == {n \in 1..Len(text) : text[n] = tok}

OccurrenceEnds(text, i) ==
    IF text[i] # "Lines " THEN {}
    ELSE {jk \in Places(text, "-") \X (1..Len(text)) :
            OccurrenceAt(text, i, jk[1], jk[2])}

OccurrenceStarts(text) == {i \in 1..Len(text) : OccurrenceEnds(text, i) # {}}

\* The references (1, A), ..., (1, B); none when A > B.
Run(A, B) == IF A > B THEN <<>> ELSE [n \in 1..(B - A + 1) |-> <<1, A + n - 1>>]

RECURSIVE RunsFrom(_, _)
\* The runs of the occurrences that start at i or later, in order of
\* appearance.
RunsFrom(text, i) ==
    IF i > Len(text) THEN <<>>
    ELSE (IF OccurrenceEnds(text, i) = {} THEN <<>>
          ELSE LET jk == CHOOSE x \in OccurrenceEnds(text, i) : TRUE
               IN  Run(DecimalSum(text, i + 1, jk[1] - 1),
                       DecimalSum(text, jk[1] + 1, jk[2])))
         \o RunsFrom(text, i + 1)

ExpectedReferences(text) == RunsFrom(text, 1)

\* A parenthesised citation  (<name>.pdf, Lines <start>-<end>)  from i to e,
\* its separator at c and its dash at d.
CitationAt(text, i, c, d, e) ==
    /\ text[i] = "("
    /\ i + 2 <= c - 1
    /\ \A n \in (i + 1)..(c - 1) : text[n] # ", "
    /\ text[c - 1] = ".pdf"
    /\ text[c] = ", "
    /\ c + 1 < d /\ text[c + 1] = "Lines "
    /\ IsDigitRun(text, c + 2, d - 1)
    /\ text[d] = "-"
    /\ IsDigitRun(text, d + 1, e - 1)
    /\ text[e] = ")"

Citations(text) ==
    {x \in Places(text, "(") \X Places(text, ", ") \X Places(text, "-")
              \X Places(text, ")") :
        CitationAt(text, x[1], x[2], x[3], x[4])}

HasCitation(text) == Citations(text) # {}

\* The name inside the first parenthesised citation.
CitedName(text) ==
    LET x == CHOOSE y \in Citations(text) : \A z \in Citations(text) : y[1] <= z[1]
    IN  SubSeq(text, x[1] + 1, x[2] - 1)

\* The boxes of the text lines of a layout, in the order of the single count
\* over all its containers.
AllLines(layout) ==
    Flatten([e \in 1..Len(layout) |->
        IF layout[e].container
        THEN LET ls == SelectSeq(layout[e].children, LAMBDA ch : ch.line)
             IN  [n \in 1..Len(ls) |-> ls[n].bbox]
        ELSE <<>>])

LineCount(layout) == Len(AllLines(layout))

SetMin(S) == CHOOSE x \in S : \A y \in S : x <= y

SetMax(S) == CHOOSE x \in S : \A y \in S : x >= y

\* The fetch answered 200 with a PDF that has a page 1.
FetchedWithPage1 ==
    status_code = HTTP_OK /\ pdf_content.valid /\ Len(pdf_content.pages) >= 1

\* The number of text lines on page 1 of the fetched document.
K1 == LineCount(pdf_content.pages[1].layout)

\* How many annotations page p carries beyond those of the fetched document.
Appended(p) ==
    IF p <= Len(pages)
    THEN Len(pages[p].annots) - Len(pdf_content.pages[p].annots)
    ELSE 0

IsPdfResponse == response.status = 200 /\ response.body = "application/pdf"

\* ----------------------------------------------------------------- claims

C2_LocateInRange ==
    pc = "return" =>
        LET K == LineCount(page_layout)
        IN  /\ line_number \in 1..K => line_bboxes # <<>>
            /\ line_number \in {0, K + 1} => line_bboxes = <<>>

\* The last of at least two lines, spread over two containers, is found.
C2_Witness ==
    /\ pc = "return"
    /\ LineCount(page_layout) >= 2
    /\ line_number = LineCount(page_layout)
    /\ Len(page_layout) >= 2
    /\ \A e \in 1..Len(page_layout) :
          page_layout[e].container
          /\ \E c \in 1..Len(page_layout[e].children) : page_layout[e].children[c].line
    /\ line_bboxes # <<>>

\* C10: extract_line_bboxes returns at most one box, and a box it returns is
\* the box of the N-th text line of the single count over all containers.
C10_FirstMatchOnly ==
    pc = "return" =>
        /\ Len(line_bboxes) <= 1
        /\ line_bboxes # <<>> =>
              /\ line_number \in 1..LineCount(page_layout)
              /\ line_bboxes[1] = AllLines(page_layout)[line_number]

\* The first line is matched in the first container and a later container
\* holds lines too.
C10_Witness ==
    /\ pc = "return"
    /\ line_number = 1
    /\ Len(page_layout) >= 2
    /\ page_layout[1].container
    /\ Len(page_layout[1].children) >= 2
    /\ page_layout[1].children[1].line
    /\ page_layout[1].children[2].line
    /\ page_layout[2].container
    /\ \E c \in 1..Len(page_layout[2].children) : page_layout[2].children[c].line
    /\ Len(line_bboxes) = 1

\* C8: the /Rect of the annotation built from a non-empty sequence of boxes is
\* [min x0, min y0, max x1, max y1] over all the boxes.
C8_RectIsUnion ==
    pc = "return" =>
        LET col(c) == {line_bboxes[n][c] : n \in 1..Len(line_bboxes)}
        IN  highlight.Rect =
                <<SetMin(col(1)), SetMin(col(2)), SetMax(col(3)), SetMax(col(4))>>

\* Two boxes whose union is neither of them.
C8_Witness ==
    /\ pc = "return"
    /\ Len(line_bboxes) >= 2
    /\ \A n \in 1..Len(line_bboxes) : highlight.Rect # line_bboxes[n]

\* C9: the /QuadPoints of the annotation built from n boxes has 8n
\* coordinates, and box i gives x0, y1, x1, y1, x0, y0, x1, y0 at places
\* 8(i-1)+1 .. 8i.
C9_QuadPoints ==
    pc = "return" =>
        /\ Len(highlight.QuadPoints) = 8 * Len(line_bboxes)
        /\ \A i \in 1..Len(line_bboxes) :
              LET b == line_bboxes[i]
              IN  SubSeq(highlight.QuadPoints, 8 * (i - 1) + 1, 8 * i)
                      = <<b[1], b[4], b[3], b[4], b[1], b[2], b[3], b[2]>>

\* Two different boxes, the first with y0 < y1 and x0 < x1.
C9_Witness ==
    /\ pc = "return"
    /\ Len(line_bboxes) = 2
    /\ line_bboxes[1] # line_bboxes[2]
    /\ line_bboxes[1][1] < line_bboxes[1][3]
    /\ line_bboxes[1][2] < line_bboxes[1][4]
    /\ Len(highlight.QuadPoints) = 16

\* C3: the resolved document name is the name inside the text's parenthesised
\* citation; and when the fetch succeeded and page 1 has K text lines, the
\* request ends with as many annotations appended to page 1 as there are
\* references with a line in 1..K, each of them a highlight, and a PDF
\* response carries that page.
C3_OneHighlightPerLine ==
    /\ (pc \notin {"idle", "extract_document_name"} /\ HasCitation(chatbot_response))
          => document_name = CitedName(chatbot_response)
    /\ (pc = "done" /\ FetchedWithPage1) =>
          LET refs == ExpectedReferences(chatbot_response)
              hit == {n \in 1..Len(refs) : refs[n][2] \in 1..K1}
              old == Len(pdf_content.pages[1].annots)
          IN  /\ Appended(1) = Cardinality(hit)
              /\ \A n \in 1..Appended(1) :
                    pages[1].annots[old + n].Subtype = "/Highlight"
              /\ IsPdfResponse => response.pages[1] = pages[1]

\* The text (doc.pdf, Lines 1-2) on a page with two lines: two highlights,
\* and the name doc.pdf.
C3_Witness ==
    /\ pc = "done"
    /\ chatbot_response = DocCite(<<"doc">>, 1, 2)
    /\ FetchedWithPage1
    /\ K1 >= 2
    /\ Appended(1) = 2
    /\ document_name = <<"doc", ".pdf">>
    /\ IsPdfResponse

\* C4: a request whose text has no occurrence of "Lines <start>-<end>" is
\* answered 400, whatever the fetch did.
C4_NoLinesIs400 ==
    (pc = "done" /\ OccurrenceStarts(chatbot_response) = {})
        => response.status = 400

\* C5: when the text has no parenthesised citation, the request ends with a
\* 400 and the document is never fetched.
C5_NoNameNoFetch ==
    (pc # "idle" /\ ~HasCitation(chatbot_response)) =>
        /\ PDF_URL = <<>>
        /\ status_code = 0
        /\ pc = "done" => response.status = 400

\* The precondition of C6: the name parsed, the fetch succeeded with a page 1,
\* and every cited line lies beyond the last line of page 1.
C6_AllBeyond ==
    /\ pc = "done"
    /\ document_name # None
    /\ FetchedWithPage1
    /\ \A n \in 1..Len(ExpectedReferences(chatbot_response)) :
          ExpectedReferences(chatbot_response)[n][2] > K1

\* What C6 promises: no annotation added, every page as fetched, a PDF
\* response with those pages.
C6_Unmodified ==
    /\ pages = pdf_content.pages
    /\ IsPdfResponse
    /\ response.pages = pdf_content.pages

\* C6 as stated: name parsed, fetch succeeded, every cited line beyond the
\* page's last line => zero annotations and a successful PDF response.
C6_Original == C6_AllBeyond => C6_Unmodified

\* C6 amended: as stated, for a citation that expands to at least one line
\* reference.
C6_BeyondLastLine ==
    (C6_AllBeyond /\ ExpectedReferences(chatbot_response) # <<>>) => C6_Unmodified

\* A citation of line 2 on a one-line page that already carries an annotation.
C6_Witness ==
    /\ C6_AllBeyond
    /\ ExpectedReferences(chatbot_response) # <<>>
    /\ K1 = 1
    /\ pdf_content.pages[1].annots # <<>>
    /\ C6_Unmodified

\* C7: each injection grows the page's annotation list by exactly the new
\* highlight at its end (a page without a list gets the one-element list) and
\* changes nothing else of any page; the annotations of the fetched document
\* stay, in order, at the front of each page's list.
C7_InjectAppends ==
    /\ [][\A p \in 1..Len(pages) :
            /\ Len(pages') = Len(pages)
            /\ pages'[p] # pages[p] =>
                  /\ p = page_num
                  /\ line_bboxes' # <<>>
                  /\ pages'[p].layout = pages[p].layout
                  /\ pages'[p].has_annots
                  /\ pages'[p].annots = Append(pages[p].annots, highlight')
                  /\ ~pages[p].has_annots => pages'[p].annots = <<highlight'>>
            /\ (p = page_num /\ pc = "lines" /\ lines_to_highlight # <<>>
                   /\ line_bboxes' # <<>>)
                  => Len(pages'[p].annots) = Len(pages[p].annots) + 1]_vars
    /\ [](\A p \in 1..Len(pages) :
            SubSeq(pages[p].annots, 1, Len(pdf_content.pages[p].annots))
                = pdf_content.pages[p].annots)

\* Two highlights of equal geometry after the annotation page 1 came with.
C7_Witness ==
    /\ Len(pages) >= 1
    /\ Len(pages[1].annots) = 3
    /\ pages[1].annots[1] = ExistingAnnot
    /\ pages[1].annots[2] = pages[1].annots[3]
    /\ pages[1].annots[2].Subtype = "/Highlight"
====
